---- MODULE Spec2Model ----
(***************************************************************************)
(* A model of malpolon/data/utils.py: the geometry predicates, the one-hot *)
(* label encoder, the recursive file discovery, the spatial train/val      *)
(* split and the per-species frequency train/val split.                    *)
(*                                                                         *)
(* Each utility is a function called with inputs drawn from bounded sets.  *)
(* The state holds the local variables of the running call, under the      *)
(* names the source gives them, and pc, the position reached in it.  A     *)
(* behaviour is one call: it starts at pc = "start" and ends at its return.*)
(* Every utility has its own specification (SpecGeometry, SpecOneHot,      *)
(* SpecFiles, SpecSpatial, SpecFrequency); all start from Init.            *)
(***************************************************************************)
EXTENDS Integers, Sequences, FiniteSets

VARIABLES
    pc,                     \* position of the running call
    raised,                 \* the exception the call ended with, or "none"
    \* is_bbox_contained / is_point_in_bbox
    bbox1, bbox2, point, method, is_contained,
    \* to_one_hot_encoding
    labels_predict, labels_target, one_hot_labels,
    \* get_files_path_recursively
    fs_dirs, fs_files,      \* the directories and the files of the file system
    path, args, suffix, result,
    \* split_obs_spatially
    df, coords, data, train_split, val_split, df_train, df_val, df_train_val,
    \* split_obs_per_species_frequency
    csv, val_ratio, pa_train, n_cls_val, indivisible_sid_n_rows, i_cls, pa_val,
    pa_train_val

geometryVars == <<bbox1, bbox2, point, method, is_contained>>
oneHotVars == <<labels_predict, labels_target, one_hot_labels>>
filesVars == <<fs_dirs, fs_files, path, args, suffix, result>>
spatialVars ==
    <<df, coords, data, train_split, val_split, df_train, df_val, df_train_val>>
frequencyVars ==
    <<csv, val_ratio, pa_train, n_cls_val, indivisible_sid_n_rows, i_cls, pa_val,
      pa_train_val>>
vars ==
    <<pc, raised, geometryVars, oneHotVars, filesVars, spatialVars, frequencyVars>>

Min(a, b) == IF a <= b THEN a ELSE b
Max(a, b) == IF a >= b THEN a ELSE b

(***************************************************************************)
(* Bounds of the model.                                                    *)
(***************************************************************************)
MaxCoord == 2
MaxLabel == 2
MaxLabels == 3

(***************************************************************************)
(* Geometry predicates.  A box is <<xmin, ymin, xmax, ymax>> (1-based here,*)
(* 0-based in the source), a point is <<x, y>>.                            *)
(***************************************************************************)
Coords == 0..MaxCoord
Boxes == Coords \X Coords \X Coords \X Coords
Points == Coords \X Coords
NoBox == <<0, 0, 0, 0>>
NoPoint == <<0, 0>>

\* The rectangle spanned by the four vertices a shapely Polygon is built from.
PolygonBounds(bbox) ==
    [xlo |-> Min(bbox[1], bbox[3]), xhi |-> Max(bbox[1], bbox[3]),
     ylo |-> Min(bbox[2], bbox[4]), yhi |-> Max(bbox[2], bbox[4])]

\* The four vertices make a valid polygon only when they span a positive area.
IsValidPolygon(bbox) == bbox[1] # bbox[3] /\ bbox[2] # bbox[4]

\* shapely's Polygon.contains(Point): the point lies in the polygon's
\* interior; a point of the boundary is not contained.
PolygonContainsPoint(bbox, p) ==
    LET b == PolygonBounds(bbox)
    IN  b.xlo < p[1] /\ p[1] < b.xhi /\ b.ylo < p[2] /\ p[2] < b.yhi

\* shapely's Polygon.contains(Polygon), for two rectangles of positive area:
\* no point of the inner one lies outside the outer one (boundaries may touch).
PolygonContainsPolygon(outer, inner) ==
    LET o == PolygonBounds(outer)
        i == PolygonBounds(inner)
    IN  o.xlo <= i.xlo /\ i.xhi <= o.xhi /\ o.ylo <= i.ylo /\ i.yhi <= o.yhi

\* The comparison with strict inequalities: a box touching the bounds is out.
is_bbox_contained_strict(b1, b2) ==
    /\ b1[1] > b2[1] /\ b1[1] < b2[3]
    /\ b1[3] > b2[1] /\ b1[3] < b2[3]
    /\ b1[2] > b2[2] /\ b1[2] < b2[4]
    /\ b1[4] > b2[2] /\ b1[4] < b2[4]

\* is_bbox_contained, method == "manual"
is_bbox_contained_manual(b1, b2) ==
    /\ b1[1] >= b2[1] /\ b1[1] <= b2[3]
    /\ b1[3] >= b2[1] /\ b1[3] <= b2[3]
    /\ b1[2] >= b2[2] /\ b1[2] <= b2[4]
    /\ b1[4] >= b2[2] /\ b1[4] <= b2[4]

\* is_bbox_contained, method == "shapely"
is_bbox_contained_shapely(b1, b2) == PolygonContainsPolygon(b2, b1)

is_bbox_contained(b1, b2, m) ==
    IF m = "manual" THEN is_bbox_contained_manual(b1, b2)
    ELSE is_bbox_contained_shapely(b1, b2)

\* is_point_in_bbox, method == "manual"
is_point_in_bbox_manual(p, bbox) ==
    /\ p[1] >= bbox[1] /\ p[1] <= bbox[3]
    /\ p[2] >= bbox[2] /\ p[2] <= bbox[4]

\* is_point_in_bbox, method == "shapely" (the default)
is_point_in_bbox_shapely(p, bbox) == PolygonContainsPoint(bbox, p)

is_point_in_bbox(p, bbox, m) ==
    IF m = "manual" THEN is_point_in_bbox_manual(p, bbox)
    ELSE is_point_in_bbox_shapely(p, bbox)

Methods == {"manual", "shapely"}

\* A call of is_bbox_contained(bbox1, bbox2, method).  The 'torchgeo' method
\* takes torchgeo BoundingBox objects instead of 4-sequences and is left out.
CallIsBboxContained ==
    /\ pc = "start"
    /\ \E b1 \in Boxes, b2 \in Boxes, m \in Methods :
        /\ m = "shapely" => IsValidPolygon(b1) /\ IsValidPolygon(b2)
        /\ bbox1' = b1
        /\ bbox2' = b2
        /\ method' = m
        /\ is_contained' = is_bbox_contained(b1, b2, m)
        /\ pc' = "is_bbox_contained"
        /\ UNCHANGED <<point, raised, oneHotVars, filesVars, spatialVars, frequencyVars>>

\* A call of is_point_in_bbox(point, bbox, method); bbox is held in bbox2.
CallIsPointInBbox ==
    /\ pc = "start"
    /\ \E p \in Points, b \in Boxes, m \in Methods :
        /\ m = "shapely" => IsValidPolygon(b)
        /\ point' = p
        /\ bbox2' = b
        /\ method' = m
        /\ is_contained' = is_point_in_bbox(p, b, m)
        /\ pc' = "is_point_in_bbox"
        /\ UNCHANGED <<bbox1, raised, oneHotVars, filesVars, spatialVars, frequencyVars>>

GeometryNext == CallIsBboxContained \/ CallIsPointInBbox

(***************************************************************************)
(* One-hot label encoder.                                                  *)
(***************************************************************************)
Labels == 0..MaxLabel

RECURSIVE SeqsUpTo(_, _)
SeqsUpTo(S, n) ==
    IF n = 0 THEN {<<>>}
    ELSE LET shorter == SeqsUpTo(S, n - 1)
         IN  shorter \cup {Append(s, x) : s \in {t \in shorter : Len(t) = n - 1}, x \in S}

LabelLists == SeqsUpTo(Labels, MaxLabels)

\* labels_predict is an int or a list: isint tells which field holds it.
PredictInputs ==
    {[isint |-> TRUE, int |-> l, list |-> <<>>] : l \in Labels}
        \cup {[isint |-> FALSE, int |-> 0, list |-> s] : s \in LabelLists}

\* line 128: labels_predict = [labels_predict] if isinstance(labels_predict, int)
AsList(lp) == IF lp.isint THEN <<lp.int>> ELSE lp.list

\* A membership test that looks at the first element of ar2 only.
In1dFirstOnly(ar1, ar2) ==
    [i \in 1..Len(ar1) |-> Len(ar2) >= 1 /\ ar2[1] = ar1[i]]

\* numpy.in1d(ar1, ar2): for each element of ar1, whether it occurs in ar2.
In1d(ar1, ar2) ==
    [i \in 1..Len(ar1) |-> \E j \in 1..Len(ar2) : ar2[j] = ar1[i]]

\* An encoder that refuses a predicted label that is not in labels_target.
to_one_hot_encoding_checked(lp, lt) ==
    LET predict == AsList(lp)
        mask == In1d(lt, predict)
    IN  IF \E j \in 1..Len(predict) : \A i \in 1..Len(lt) : lt[i] # predict[j]
        THEN [raised |-> "InvalidLabel", value |-> <<>>]
        ELSE [raised |-> "none",
              value |-> [i \in 1..Len(lt) |-> IF mask[i] THEN 1 ELSE 0]]

\* to_one_hot_encoding: zeros(n_classes) with the entries of the mask set to 1.
to_one_hot_encoding(lp, lt) ==
    LET predict == AsList(lp)
        n_classes == Len(lt)
        mask == In1d(lt, predict)
    IN  [raised |-> "none",
         value |-> [i \in 1..n_classes |-> IF mask[i] THEN 1 ELSE 0]]

CallToOneHotEncoding ==
    /\ pc = "start"
    /\ \E lp \in PredictInputs, lt \in LabelLists :
        LET r == to_one_hot_encoding(lp, lt)
        IN  /\ labels_predict' = lp
            /\ labels_target' = lt
            /\ one_hot_labels' = r.value
            /\ raised' = r.raised
            /\ pc' = "to_one_hot_encoding"
            /\ UNCHANGED <<geometryVars, filesVars, spatialVars, frequencyVars>>

OneHotNext == CallToOneHotEncoding

(***************************************************************************)
(* Recursive file discovery.  A string is a sequence of characters; a      *)
(* directory is the sequence of its components and a file path is its      *)
(* directory with the file name appended (os.path.join).                   *)
(***************************************************************************)
MaxExts == 2

a_csv == <<"a", ".", "c", "s", "v">>
b_txt == <<"b", ".", "t", "x", "t">>
acsv == <<"a", "c", "s", "v">>
FileNames == {a_csv, b_txt, acsv}

ExtArgs == {<<"c", "s", "v">>, <<".", "c", "s", "v">>, <<"t", "x", "t">>}
Suffixes == {<<>>, <<"a">>}

RootDir == <<"root">>
SubDir == <<"root", "sub">>
MissingDir == <<"missing">>
DirTrees == {{}, {RootDir}, {RootDir, SubDir}}
PathArgs == {RootDir, SubDir, MissingDir}

\* The orders in which a directory scan may list the file names.
ScanOrders ==
    {o \in [1..Cardinality(FileNames) -> FileNames] :
        \A i, j \in DOMAIN o : i # j => o[i] # o[j]}

EndsWith(s, t) ==
    Len(t) <= Len(s) /\ SubSeq(s, Len(s) - Len(t) + 1, Len(s)) = t

RECURSIVE Concat(_)
Concat(ss) == IF ss = <<>> THEN <<>> ELSE Head(ss) \o Concat(Tail(ss))

\* line 157: ext[1:] if ext[0] == '.' else ext
StripDot(ext) == IF Head(ext) = "." THEN Tail(ext) ELSE ext

\* line 158: "|".join(exts), as the alternatives of the group (ext_list);
\* the join of no extension is the empty pattern.
ExtList(exts) ==
    IF exts = <<>> THEN {<<>>} ELSE {exts[i] : i \in DOMAIN exts}

\* line 162: re.search(rf"^.*({suffix})\.({ext_list})$", f)
ReSearch(sfx, ext_list, f) ==
    \E e \in ext_list : EndsWith(f, sfx \o <<".">> \o e)

SubDirsOf(dirs, d) ==
    {e \in dirs : Len(e) = Len(d) + 1 /\ SubSeq(e, 1, Len(d)) = d}

RECURSIVE SetToSeq(_)
SetToSeq(S) ==
    IF S = {} THEN <<>>
    ELSE LET x == CHOOSE y \in S : TRUE IN <<x>> \o SetToSeq(S \ {x})

\* The file names a scan of directory d lists, in scan order.
ListFiles(files, order, d) ==
    SelectSeq(order, LAMBDA f : Append(d, f) \in files)

\* os.walk(top), top-down: <<dirpath, filenames>> of top and of every
\* directory below it.  A top that is no directory yields nothing: the
\* error of the scan goes to onerror, which is None.
RECURSIVE os_walk(_, _, _, _)
os_walk(dirs, files, order, top) ==
    IF top \notin dirs THEN <<>>
    ELSE LET below == SetToSeq(SubDirsOf(dirs, top))
         IN  <<[dp |-> top, filenames |-> ListFiles(files, order, top)]>>
                 \o Concat([k \in DOMAIN below |->
                              os_walk(dirs, files, order, below[k])])

\* A discovery that refuses a root that is no directory.
get_files_path_recursively_checked(dirs, files, order, p, exts_in, sfx) ==
    IF p \notin dirs
    THEN [raised |-> "PathNotFound", value |-> <<>>]
    ELSE LET exts == [i \in DOMAIN exts_in |-> StripDot(exts_in[i])]
             walk == os_walk(dirs, files, order, p)
         IN  [raised |-> "none",
              value |-> Concat([k \in DOMAIN walk |->
                  LET kept == SelectSeq(walk[k].filenames,
                                  LAMBDA f : ReSearch(sfx, ExtList(exts), f))
                  IN  [n \in DOMAIN kept |-> Append(walk[k].dp, kept[n])]])]

\* get_files_path_recursively(path, *args, suffix)
get_files_path_recursively(dirs, files, order, p, exts_in, sfx) ==
    LET exts == [i \in DOMAIN exts_in |-> StripDot(exts_in[i])]
        ext_list == ExtList(exts)
        walk == os_walk(dirs, files, order, p)
    IN  [raised |-> "none",
         value |-> Concat([k \in DOMAIN walk |->
             LET kept == SelectSeq(walk[k].filenames,
                             LAMBDA f : ReSearch(sfx, ext_list, f))
             IN  [n \in DOMAIN kept |-> Append(walk[k].dp, kept[n])]])]

\* A call of get_files_path_recursively on some file system.
CallGetFilesPathRecursively ==
    /\ pc = "start"
    /\ \E dirs \in DirTrees, p \in PathArgs, sfx \in Suffixes, order \in ScanOrders :
      \E files \in SUBSET {Append(d, f) : d \in dirs, f \in FileNames},
         exts \in SeqsUpTo(ExtArgs, MaxExts) :
        LET r == get_files_path_recursively(dirs, files, order, p, exts, sfx)
        IN  /\ fs_dirs' = dirs
            /\ fs_files' = files
            /\ path' = p
            /\ args' = exts
            /\ suffix' = sfx
            /\ result' = r.value
            /\ raised' = r.raised
            /\ pc' = "get_files_path_recursively"
            /\ UNCHANGED <<geometryVars, oneHotVars, spatialVars, frequencyVars>>

FilesNext == CallGetFilesPathRecursively

(***************************************************************************)
(* Spatial train/val split.  A data frame, like an ordered dict of arrays, *)
(* is the sequence of its columns, each [name, values].                    *)
(***************************************************************************)
MaxObs == 2

NoFrame == <<>>
NoSplit == <<<<>>, <<>>>>

ColumnOrders ==
    {o \in [1..3 -> {"lon", "lat", "speciesId"}] :
        \A i, j \in 1..3 : i # j => o[i] # o[j]}
CoordValues == 0..1
SpeciesValues == {7, 8}
Observations == [lon : CoordValues, lat : CoordValues, speciesId : SpeciesValues]
Spacings == {1, 2}

\* pd.read_csv: the columns of the file, in the file's order.
ReadCsvColumns(columns, rows) ==
    [c \in DOMAIN columns |->
        [name |-> columns[c],
         values |-> [k \in DOMAIN rows |-> rows[k][columns[c]]]]]

Values(d) == [k \in DOMAIN d |-> d[k].values]
Keys(d) == [k \in DOMAIN d |-> d[k].name]
NRows(frame) == IF frame = <<>> THEN 0 ELSE Len(frame[1].values)
Column(frame, name) ==
    (CHOOSE c \in {frame[k] : k \in DOMAIN frame} : c.name = name).values
Row(frame, k) ==
    [name \in {frame[c].name : c \in DOMAIN frame} |-> Column(frame, name)[k]]

\* df[col] = values: replaces the column when there is one, else appends it.
SetColumn(frame, name, values) ==
    IF \E c \in DOMAIN frame : frame[c].name = name
    THEN [c \in DOMAIN frame |->
            IF frame[c].name = name THEN [name |-> name, values |-> values]
            ELSE frame[c]]
    ELSE Append(frame, [name |-> name, values |-> values])

RECURSIVE SetColumns(_, _, _)
SetColumns(frame, names, arrays) ==
    IF names = <<>> \/ arrays = <<>> THEN frame
    ELSE SetColumns(SetColumn(frame, Head(names), Head(arrays)),
                    Tail(names), Tail(arrays))

\* pd.concat([a, b]) of two frames with the same columns
ConcatFrames(a, b) ==
    [c \in DOMAIN a |->
        [name |-> a[c].name, values |-> a[c].values \o Column(b, a[c].name)]]

Repeat(x, n) == [k \in 1..n |-> x]

\* verde: the block of side spacing that row k falls in, from the first two
\* coordinate arrays (easting, northing) in the order they are passed.
BlockOf(coordinates, spacing, k) ==
    <<coordinates[1][k] \div spacing, coordinates[2][k] \div spacing>>
BlocksOf(coordinates, spacing) ==
    {BlockOf(coordinates, spacing, k) : k \in DOMAIN coordinates[1]}

\* The row numbers of an array of n rows, ascending.
RowNumbers(n) == [k \in 1..n |-> k]
Select(array, index) == [k \in DOMAIN index |-> array[index[k]]]

\* verde.train_test_split(coordinates, data, spacing=, test_size=): whole
\* blocks go to the test side, here those of test_blocks; each side is
\* <<coordinates, data>> with every array cut to the side's rows, the arrays in
\* the order they were passed.  The block shuffle needs a block for each side.
spatial_tts(coordinates, data_arrays, spacing, test_blocks) ==
    LET n == Len(coordinates[1])
        test == SelectSeq(RowNumbers(n),
                    LAMBDA k : BlockOf(coordinates, spacing, k) \in test_blocks)
        train == SelectSeq(RowNumbers(n),
                     LAMBDA k : BlockOf(coordinates, spacing, k) \notin test_blocks)
        Side(index) ==
            <<[c \in DOMAIN coordinates |-> Select(coordinates[c], index)],
              [c \in DOMAIN data_arrays |-> Select(data_arrays[c], index)]>>
    IN  IF Cardinality(BlocksOf(coordinates, spacing)) < 2
        THEN [raised |-> "ValueError", train |-> NoSplit, test |-> NoSplit]
        ELSE [raised |-> "none", train |-> Side(train), test |-> Side(test)]

IsCoord(col) == col.name \in {"lon", "lat"}
IsData(col) == col.name \notin {"lon", "lat"}

\* split_obs_spatially, lines 186-204: the local variables at its end.
split_obs_spatially(frame, spacing, test_blocks) ==
    LET coords_d == SelectSeq(frame, IsCoord)
        data_d == SelectSeq(frame, IsData)
        tts == spatial_tts(Values(coords_d), Values(data_d), spacing, test_blocks)
        train == tts.train
        val == tts.test
        train0 == <<[name |-> "lon", values |-> train[1][1]],
                    [name |-> "lat", values |-> train[1][2]]>>
        val0 == <<[name |-> "lon", values |-> val[1][1]],
                  [name |-> "lat", values |-> val[1][2]]>>
        train1 == SetColumn(train0, "subset", Repeat("train", NRows(train0)))
        val1 == SetColumn(val0, "subset", Repeat("val", NRows(val0)))
        train2 == SetColumns(train1, Keys(data_d), train[2])
        val2 == SetColumns(val1, Keys(data_d), val[2])
    IN  IF tts.raised # "none"
        THEN [raised |-> tts.raised, coords |-> coords_d, data |-> data_d,
              train_split |-> NoSplit, val_split |-> NoSplit,
              df_train |-> NoFrame, df_val |-> NoFrame, df_train_val |-> NoFrame]
        ELSE [raised |-> "none", coords |-> coords_d, data |-> data_d,
              train_split |-> train, val_split |-> val,
              df_train |-> train2, df_val |-> val2,
              df_train_val |-> ConcatFrames(train2, val2)]

\* What the block shuffle may draw: some, not all, of the blocks.
TestBlockChoices(frame, spacing) ==
    LET blocks == BlocksOf(Values(SelectSeq(frame, IsCoord)), spacing)
    IN  IF Cardinality(blocks) < 2 THEN {{}}
        ELSE (SUBSET blocks) \ {{}, blocks}

\* A call of split_obs_spatially on some CSV file.
CallSplitObsSpatially ==
    /\ pc = "start"
    /\ \E columns \in ColumnOrders, rows \in SeqsUpTo(Observations, MaxObs),
       spacing \in Spacings :
      LET frame == ReadCsvColumns(columns, rows)
      IN  \E test_blocks \in TestBlockChoices(frame, spacing) :
            LET r == split_obs_spatially(frame, spacing, test_blocks)
            IN  /\ df' = frame
                /\ coords' = r.coords
                /\ data' = r.data
                /\ train_split' = r.train_split
                /\ val_split' = r.val_split
                /\ df_train' = r.df_train
                /\ df_val' = r.df_val
                /\ df_train_val' = r.df_train_val
                /\ raised' = r.raised
                /\ pc' = "split_obs_spatially"
                /\ UNCHANGED <<geometryVars, oneHotVars, filesVars, frequencyVars>>

SpatialNext == CallSplitObsSpatially

(***************************************************************************)
(* Per-species frequency train/val split.  The CSV file is the sequence of *)
(* the speciesId of its rows; a row of a data frame is [index, speciesId,  *)
(* subset], index being the row's label in the frame read from the file    *)
(* (1-based here).  val_ratio is the fraction num/den.                     *)
(***************************************************************************)
MaxRows == 25

Species == {1, 2}
ValRatios == {[num |-> 1, den |-> 10], [num |-> 9, den |-> 10]}

\* The CSV files: the rows of species 1, then those of species 2.
CsvFiles ==
    {Repeat(1, c[1]) \o Repeat(2, c[2]) :
        c \in {d \in [Species -> 0..MaxRows] : d[1] + d[2] <= MaxRows}}

RECURSIVE KSubsets(_, _)
KSubsets(S, k) ==
    IF k = 0 THEN {{}}
    ELSE IF Cardinality(S) < k THEN {}
    ELSE LET x == CHOOSE m \in S : \A y \in S : m <= y
         IN  {T \cup {x} : T \in KSubsets(S \ {x}, k - 1)} \cup KSubsets(S \ {x}, k)

RECURSIVE SumSeq(_)
SumSeq(s) == IF s = <<>> THEN 0 ELSE Head(s) + SumSeq(Tail(s))

Reverse(s) == [k \in DOMAIN s |-> s[Len(s) + 1 - k]]

RECURSIVE SortedSeq(_)
SortedSeq(S) ==
    IF S = {} THEN <<>>
    ELSE LET x == CHOOSE m \in S : \A y \in S : m <= y
         IN  <<x>> \o SortedSeq(S \ {x})

\* Rounding to the nearest integer with a half going up.
py_round_half_up(v, ratio) == (2 * v * ratio.num + ratio.den) \div (2 * ratio.den)

\* round(v * val_ratio): Python rounds to the nearest integer and a half to
\* the even one.
py_round(v, ratio) ==
    LET q == (v * ratio.num) \div ratio.den
        r == (v * ratio.num) % ratio.den
    IN  IF 2 * r < ratio.den THEN q
        ELSE IF 2 * r > ratio.den THEN q + 1
        ELSE IF q % 2 = 0 THEN q ELSE q + 1

\* np.unique(pa_train['speciesId'], return_counts=True)
np_unique(frame) ==
    LET ids == SortedSeq({frame[k].speciesId : k \in DOMAIN frame})
    IN  <<ids,
          [u \in DOMAIN ids |->
              Cardinality({k \in DOMAIN frame : frame[k].speciesId = ids[u]})]>>

\* np.argsort(a): the positions of a in ascending order of value, equal
\* values in the order they stand in.
RECURSIVE ArgsortOf(_, _)
ArgsortOf(a, left) ==
    IF left = {} THEN <<>>
    ELSE LET x == CHOOSE m \in left :
                      \A y \in left : a[m] < a[y] \/ (a[m] = a[y] /\ m <= y)
         IN  <<x>> \o ArgsortOf(a, left \ {x})
np_argsort(a) == ArgsortOf(a, DOMAIN a)

\* lines 235-238: the species and their counts, most frequent first.
UniquesSortedDesc(frame) ==
    LET pa_train_uniques == np_unique(frame)
        args_sorted == np_argsort(pa_train_uniques[2])
    IN  <<Reverse(Select(pa_train_uniques[1], args_sorted)),
          Reverse(Select(pa_train_uniques[2], args_sorted))>>

\* lines 239-241: every count replaced by round(v * val_ratio)
RoundedCounts(uniques_sorted_desc, ratio) ==
    <<uniques_sorted_desc[1],
      [k \in DOMAIN uniques_sorted_desc[2] |->
          py_round(uniques_sorted_desc[2][k], ratio)]>>

\* line 243: np.sum(n_cls_val[1][n_cls_val[1] < (1 / val_ratio)]), taken on
\* n_cls_val after the loop of lines 240-241 has rounded it.
IndivisibleRows(n, ratio) ==
    SumSeq(SelectSeq(n[2], LAMBDA v : v * ratio.num < ratio.den))

\* A drop that removes no row.
drop_nothing(frame, labels) == frame

\* DataFrame.drop(labels): the frame without the rows labelled so.
drop(frame, labels) == SelectSeq(frame, LAMBDA r : r.index \notin labels)

SetSubset(frame, tag) == [k \in DOMAIN frame |-> [frame[k] EXCEPT !.subset = tag]]

\* lines 233-234: the file is read and every row tagged 'train'.
ReadCsv ==
    /\ pc = "start"
    /\ \E file \in CsvFiles, ratio \in ValRatios :
        /\ csv' = file
        /\ val_ratio' = ratio
        /\ pa_train' = [k \in DOMAIN file |->
                           [index |-> k, speciesId |-> file[k], subset |-> "train"]]
        /\ pc' = "read"
        /\ UNCHANGED <<raised, n_cls_val, indivisible_sid_n_rows, i_cls, pa_val,
                       pa_train_val>>
        /\ UNCHANGED <<geometryVars, oneHotVars, filesVars, spatialVars>>

\* lines 235-244: the per-species validation counts, the reported count of
\* rows left out, and the empty validation frame.
CountClasses ==
    /\ pc = "read"
    /\ n_cls_val' = RoundedCounts(UniquesSortedDesc(pa_train), val_ratio)
    /\ indivisible_sid_n_rows' = IndivisibleRows(n_cls_val', val_ratio)
    /\ pa_val' = <<>>
    /\ i_cls' = 1
    /\ pc' = "loop"
    /\ UNCHANGED <<raised, csv, val_ratio, pa_train, pa_train_val>>
    /\ UNCHANGED <<geometryVars, oneHotVars, filesVars, spatialVars>>

\* lines 245-248, n_sid >= 1: n_sid rows of the species are drawn without
\* replacement and appended to pa_val.
SampleClass ==
    /\ pc = "loop"
    /\ i_cls <= Len(n_cls_val[1])
    /\ n_cls_val[2][i_cls] >= 1
    /\ LET sid == n_cls_val[1][i_cls]
           n_sid == n_cls_val[2][i_cls]
           df_slice == SelectSeq(pa_train, LAMBDA r : r.speciesId = sid)
       IN  \E drawn \in KSubsets(DOMAIN df_slice, n_sid) :
               pa_val' = pa_val \o SelectSeq(df_slice,
                             LAMBDA r : \E k \in drawn : df_slice[k] = r)
    /\ i_cls' = i_cls + 1
    /\ UNCHANGED <<pc, raised, csv, val_ratio, pa_train, n_cls_val,
                   indivisible_sid_n_rows, pa_train_val>>
    /\ UNCHANGED <<geometryVars, oneHotVars, filesVars, spatialVars>>

\* lines 245-246, n_sid < 1: the species gives no row to pa_val.
SkipClass ==
    /\ pc = "loop"
    /\ i_cls <= Len(n_cls_val[1])
    /\ n_cls_val[2][i_cls] < 1
    /\ i_cls' = i_cls + 1
    /\ UNCHANGED <<pc, raised, csv, val_ratio, pa_train, n_cls_val,
                   indivisible_sid_n_rows, pa_val, pa_train_val>>
    /\ UNCHANGED <<geometryVars, oneHotVars, filesVars, spatialVars>>

\* lines 249-256: the validation rows are tagged 'val' and dropped from
\* pa_train, and the three frames are written.
Export ==
    /\ pc = "loop"
    /\ i_cls > Len(n_cls_val[1])
    /\ pa_val' = SetSubset(pa_val, "val")
    /\ pa_train' = drop(pa_train, {pa_val'[k].index : k \in DOMAIN pa_val'})
    /\ pa_train_val' = pa_train' \o pa_val'
    /\ pc' = "split_obs_per_species_frequency"
    /\ UNCHANGED <<raised, csv, val_ratio, n_cls_val, indivisible_sid_n_rows, i_cls>>
    /\ UNCHANGED <<geometryVars, oneHotVars, filesVars, spatialVars>>

FrequencyNext == ReadCsv \/ CountClasses \/ SampleClass \/ SkipClass \/ Export

(***************************************************************************)
(* Initial state and specifications.                                       *)
(***************************************************************************)
Init ==
    /\ pc = "start"
    /\ raised = "none"
    /\ bbox1 = NoBox /\ bbox2 = NoBox /\ point = NoPoint
    /\ method = "shapely" /\ is_contained = FALSE
    /\ labels_predict = [isint |-> FALSE, int |-> 0, list |-> <<>>]
    /\ labels_target = <<>> /\ one_hot_labels = <<>>
    /\ fs_dirs = {} /\ fs_files = {}
    /\ path = <<>> /\ args = <<>> /\ suffix = <<>> /\ result = <<>>
    /\ df = NoFrame /\ coords = <<>> /\ data = <<>>
    /\ train_split = NoSplit /\ val_split = NoSplit
    /\ df_train = NoFrame /\ df_val = NoFrame /\ df_train_val = NoFrame
    /\ csv = <<>> /\ val_ratio = [num |-> 1, den |-> 2]
    /\ pa_train = <<>> /\ n_cls_val = <<<<>>, <<>>>>
    /\ indivisible_sid_n_rows = 0 /\ i_cls = 0
    /\ pa_val = <<>> /\ pa_train_val = <<>>

SpecGeometry == Init /\ [][GeometryNext]_vars

SpecOneHot == Init /\ [][OneHotNext]_vars

SpecFiles == Init /\ [][FilesNext]_vars

SpecSpatial == Init /\ [][SpatialNext]_vars

SpecFrequency == Init /\ [][FrequencyNext]_vars

(***************************************************************************)
(* Properties.                                                             *)
(***************************************************************************)
Returned(f) == pc = f /\ raised = "none"
FrequencyDone == Returned("split_obs_per_species_frequency")

\* The rows of species sid in the file and in the two outputs.
Occurrences(sid) == Cardinality({k \in DOMAIN csv : csv[k] = sid})
ValRows(sid) ==
    Cardinality({k \in DOMAIN pa_val :
                    pa_val[k].speciesId = sid /\ pa_val[k].subset = "val"})
TrainRows(sid) ==
    Cardinality({k \in DOMAIN pa_train :
                    pa_train[k].speciesId = sid /\ pa_train[k].subset = "train"})

\* n is the integer nearest to v * ratio, a half going up.
IsNearestHalfUp(n, v, ratio) ==
    /\ 2 * v * ratio.num - ratio.den < 2 * n * ratio.den
    /\ 2 * n * ratio.den <= 2 * v * ratio.num + ratio.den

\* n is the integer nearest to v * ratio, a half going to the even integer.
IsNearestHalfEven(n, v, ratio) ==
    LET twice_off == 2 * n * ratio.den - 2 * v * ratio.num
    IN  /\ -ratio.den <= twice_off /\ twice_off <= ratio.den
        /\ twice_off \in {-ratio.den, ratio.den} => n % 2 = 0

OneTenth == [num |-> 1, den |-> 10]

\* C1, as stated: when the frequency split has returned, every species has
\* round(count * val_ratio) rows tagged 'val', a half rounded up; a species of
\* 25 rows has 3 of them at val_ratio = 0.1.
C1_ValCountHalfUp ==
    FrequencyDone =>
        \A sid \in Species :
            /\ IsNearestHalfUp(ValRows(sid), Occurrences(sid), val_ratio)
            /\ val_ratio = OneTenth /\ Occurrences(sid) = 25 => ValRows(sid) = 3

\* C1, amended: when the frequency split has returned, every species has
\* round(count * val_ratio) rows tagged 'val', a half rounded to the even
\* integer; a species of 25 rows has 2 of them at val_ratio = 0.1.
C1_ValCountHalfEven ==
    FrequencyDone =>
        \A sid \in Species :
            /\ IsNearestHalfEven(ValRows(sid), Occurrences(sid), val_ratio)
            /\ val_ratio = OneTenth /\ Occurrences(sid) = 25 => ValRows(sid) = 2

C1_Witness ==
    /\ FrequencyDone
    /\ val_ratio = OneTenth
    /\ \E sid \in Species : Occurrences(sid) = 25 /\ ValRows(sid) = 2

\* C2: when the frequency split has returned, the reported count of excluded
\* rows (indivisible_sid_n_rows) is the number of rows of the file that belong
\* to a species with fewer than 1 / val_ratio occurrences.
C2_ExcludedCount ==
    FrequencyDone =>
        indivisible_sid_n_rows =
            Cardinality({k \in DOMAIN csv :
                Occurrences(csv[k]) * val_ratio.num < val_ratio.den})

IndexCount(frame, label) ==
    Cardinality({k \in DOMAIN frame : frame[k].index = label})

\* C3: when the frequency split has returned, every row of the file is once
\* in the train output or once in the val output and not in both, tagged
\* 'train' there and 'val' here and with its speciesId, and the two outputs
\* together have as many rows as the file; the train_val output is the two.
C3_Partition ==
    FrequencyDone =>
        /\ \A k \in DOMAIN csv :
               IndexCount(pa_train, k) + IndexCount(pa_val, k) = 1
        /\ \A j \in DOMAIN pa_train :
               /\ pa_train[j].subset = "train"
               /\ pa_train[j].index \in DOMAIN csv
               /\ pa_train[j].speciesId = csv[pa_train[j].index]
        /\ \A j \in DOMAIN pa_val :
               /\ pa_val[j].subset = "val"
               /\ pa_val[j].index \in DOMAIN csv
               /\ pa_val[j].speciesId = csv[pa_val[j].index]
        /\ Len(pa_train) + Len(pa_val) = Len(csv)
        /\ pa_train_val = pa_train \o pa_val

C3_Witness ==
    /\ FrequencyDone
    /\ Len(pa_val) >= 2
    /\ Len(pa_train) >= 2
    /\ \E sid \in Species : Occurrences(sid) >= 1 /\ ValRows(sid) = 0

\* C4: when the spatial split has returned, every row of its output carries,
\* under each column name of the input (lon, lat and the others), the values
\* one and the same input row has under those names, and a subset tag.
C4_ColumnsKept ==
    Returned("split_obs_spatially") =>
        \A k \in 1..NRows(df_train_val) :
            /\ Row(df_train_val, k).subset \in {"train", "val"}
            /\ \E j \in 1..NRows(df) :
                   \A name \in {df[c].name : c \in DOMAIN df} :
                       Row(df_train_val, k)[name] = Row(df, j)[name]

WellFormed(bbox) == bbox[1] <= bbox[3] /\ bbox[2] <= bbox[4]

InBounds(p, bbox) ==
    bbox[1] <= p[1] /\ p[1] <= bbox[3] /\ bbox[2] <= p[2] /\ p[2] <= bbox[4]

OnBoundary(p, bbox) ==
    /\ InBounds(p, bbox)
    /\ p[1] \in {bbox[1], bbox[3]} \/ p[2] \in {bbox[2], bbox[4]}

\* C5: is_point_in_bbox returns True for every point on the boundary of the
\* box (an edge or a corner), with the 'manual' and the 'shapely' method.
C5_BoundaryContained ==
    (Returned("is_point_in_bbox") /\ WellFormed(bbox2) /\ OnBoundary(point, bbox2))
        => is_contained

Corners(bbox) ==
    {<<bbox[1], bbox[2]>>, <<bbox[1], bbox[4]>>,
     <<bbox[3], bbox[2]>>, <<bbox[3], bbox[4]>>}

\* C6: is_bbox_contained with method 'manual' returns True exactly when each
\* of the four corners of bbox1 lies within the bounds of bbox2, inclusive;
\* in particular a box is contained in itself.
C6_ManualCorners ==
    (Returned("is_bbox_contained") /\ method = "manual") =>
        /\ is_contained <=> \A corner \in Corners(bbox1) : InBounds(corner, bbox2)
        /\ WellFormed(bbox1) /\ bbox1 = bbox2 => is_contained

C6_Witness ==
    /\ Returned("is_bbox_contained")
    /\ method = "manual"
    /\ is_contained
    /\ bbox1 # bbox2
    /\ bbox1[1] = bbox2[1] /\ bbox1[4] = bbox2[4]

PredictedSet(lp) == {AsList(lp)[j] : j \in DOMAIN AsList(lp)}
Vocabulary == {labels_target[i] : i \in DOMAIN labels_target}

\* C7: to_one_hot_encoding returns a vector as long as labels_target whose
\* entry i is 1 when labels_target[i] is among the predicted labels and 0
\* otherwise; predicted labels in another order or repeated give the same.
C7_OneHot ==
    pc = "to_one_hot_encoding" =>
        /\ Len(one_hot_labels) = Len(labels_target)
        /\ \A i \in DOMAIN labels_target :
               one_hot_labels[i] =
                   IF labels_target[i] \in PredictedSet(labels_predict) THEN 1 ELSE 0
        /\ \A other \in PredictInputs :
               PredictedSet(other) = PredictedSet(labels_predict) =>
                   to_one_hot_encoding(other, labels_target).value = one_hot_labels

C7_Witness ==
    /\ pc = "to_one_hot_encoding"
    /\ ~labels_predict.isint
    /\ Len(labels_predict.list) > Cardinality(PredictedSet(labels_predict))
    /\ Cardinality(PredictedSet(labels_predict)) = 2
    /\ \E i, j \in DOMAIN one_hot_labels :
           one_hot_labels[i] = 1 /\ one_hot_labels[j] = 0

HasAbsentLabel == PredictedSet(labels_predict) \ Vocabulary # {}

\* C8, as stated: a call of to_one_hot_encoding with a predicted label that is
\* not in labels_target fails with InvalidLabel.
C8_AbsentLabelFails ==
    (pc = "to_one_hot_encoding" /\ HasAbsentLabel) => raised = "InvalidLabel"

\* C8, amended: a call of to_one_hot_encoding with a predicted label that is
\* not in labels_target raises nothing and returns the encoding of the
\* predicted labels that are in labels_target.
C8_AbsentLabelDropped ==
    (pc = "to_one_hot_encoding" /\ HasAbsentLabel) =>
        /\ raised = "none"
        /\ Len(one_hot_labels) = Len(labels_target)
        /\ \A i \in DOMAIN labels_target :
               one_hot_labels[i] = 1 <=>
                   labels_target[i] \in PredictedSet(labels_predict) \cap Vocabulary

C8_Witness ==
    /\ pc = "to_one_hot_encoding"
    /\ HasAbsentLabel
    /\ PredictedSet(labels_predict) \cap Vocabulary # {}
    /\ \E i \in DOMAIN one_hot_labels : one_hot_labels[i] = 1

\* C9, as stated: a call of get_files_path_recursively on a root that does not
\* exist fails with PathNotFound.
C9_MissingRootFails ==
    (pc = "get_files_path_recursively" /\ path \notin fs_dirs)
        => raised = "PathNotFound"

\* C9, amended: a call of get_files_path_recursively on a root that does not
\* exist raises nothing and returns the empty list.
C9_MissingRootEmpty ==
    (pc = "get_files_path_recursively" /\ path \notin fs_dirs)
        => raised = "none" /\ result = <<>>

C9_Witness ==
    /\ pc = "get_files_path_recursively"
    /\ path = MissingDir
    /\ Append(RootDir, a_csv) \in fs_files
    /\ args = <<<<"c", "s", "v">>>>
    /\ result = <<>>

\* C10: when the frequency split has returned, every species with a row in the
\* val output has a row in the train output too.
C10_TrainKeepsOne ==
    FrequencyDone =>
        \A sid \in Species : ValRows(sid) >= 1 => TrainRows(sid) >= 1

====
